---- MODULE Spec2Model ----
(***************************************************************************)
(* The inventory ledger, cart and checkout of the CardNoble clone.         *)
(*                                                                         *)
(* The database tables are the state.  A request handler that reads rows   *)
(* into its SQLAlchemy session and writes them back at db.session.commit() *)
(* is two steps, the load and the commit: the ORM emits                    *)
(*   UPDATE ... SET quantity = <value computed from the loaded row>        *)
(* so whatever other requests committed in between is overwritten.  A      *)
(* commit is one database transaction and is one step.                     *)
(*                                                                         *)
(* update_cart_item and remove_from_cart write a value that does not       *)
(* depend on what they loaded; each is one step.                           *)
(*                                                                         *)
(* Prices (db.Float) are modelled as integers.                             *)
(***************************************************************************)
EXTENDS Integers, Sequences, FiniteSets, Bags, TLC

\* ---------------------------------------------------------------- bounds
NumUsers == 2
NumSlots == 2
NumProducts == 2
MaxStocks == 3
MaxCartId == 2
MaxCartQty == 3
MaxOrders == 2
MaxBatches == 1
MaxLines == 2
MaxQty == 2
MaxSeedQty == 1
LedgerCartId == 1
LedgerOrders == 1
MaxNewProducts == 1
MaxCatalogBatches == 2
MaxCodes == 2

Users == 1..NumUsers
Products == 1..NumProducts
\* models.py: Stock.condition, "NM, LP, MP, HP"
Conditions == {"NM", "LP"}
\* seed_database.py sample_products: prices of two of the seeded products
SeedPrices == <<30, 45>>
SeedPrice(p) == SeedPrices[((p - 1) % Len(SeedPrices)) + 1]

\* quantities a client can send in a JSON body or a form field
QtyInputs == (0 - 1)..MaxQty
\* the quantities the model sends to add_to_cart
AddQtyInputs == 0..MaxQty

VARIABLES
    products,           \* table products: the ids of its rows
    stocks,             \* table stocks: id (the index) -> row
    cart_items,         \* table cart_items: a set of rows, each with its id
    next_cart_id,       \* the next autoincrement id of cart_items
    orders,             \* table orders: id (the index) -> row
    order_codes,        \* table orders, column code: id (the index) -> code
    order_items,        \* table order_items, in insertion order
    stock_orders,       \* table stock_orders: id (the index) -> row
    stock_order_items,  \* table stock_order_items, in insertion order
    reqs,               \* the requests in flight: a bag of sessions
    acct                \* history: per stock line, what was seeded, stocked
                        \* in, removed by stock-out and sold

vars == <<products, stocks, cart_items, next_cart_id, orders, order_codes,
          order_items,
          stock_orders, stock_order_items, reqs, acct>>

db == <<products, stocks, cart_items, next_cart_id, orders, order_codes,
        order_items,
        stock_orders, stock_order_items, acct>>

\* ---------------------------------------------------------------- helpers
Max(a, b) == IF a >= b THEN a ELSE b

RECURSIVE SortedSeq(_)
\* the rows of S as a sequence, ascending id
SortedSeq(S) ==
    IF S = {} THEN <<>>
    ELSE LET m == CHOOSE x \in S : \A y \in S : x.id <= y.id
         IN  <<m>> \o SortedSeq(S \ {m})

RECURSIVE SortedSeqBy(_)
\* the elements of S as a sequence, in some fixed order
SortedSeqBy(S) ==
    IF S = {} THEN <<>>
    ELSE LET m == CHOOSE x \in S : TRUE
         IN  <<m>> \o SortedSeqBy(S \ {m})

RECURSIVE SumSeq(_)
SumSeq(s) == IF s = <<>> THEN 0 ELSE Head(s) + SumSeq(Tail(s))

\* the text of a form field: a sequence of characters
DigitChars == <<"0", "1", "2", "3", "4", "5", "6", "7", "8", "9">>

IsDigit(ch) == \E d \in DOMAIN DigitChars : DigitChars[d] = ch

DigitValue(ch) == (CHOOSE d \in DOMAIN DigitChars : DigitChars[d] = ch) - 1

RECURSIVE Digits(_)
\* the decimal digits of n >= 0
Digits(n) ==
    IF n < 10 THEN <<DigitChars[n + 1]>>
    ELSE Append(Digits(n \div 10), DigitChars[(n % 10) + 1])

\* str(n): what a browser sends for the number n
Str(n) == IF n < 0 THEN <<"-">> \o Digits(0 - n) ELSE Digits(n)

RECURSIVE DigitsValue(_, _)
DigitsValue(text, acc) ==
    IF text = <<>> THEN acc
    ELSE DigitsValue(Tail(text), 10 * acc + DigitValue(Head(text)))

\* int(text) raises ValueError unless text is an optional sign followed by
\* at least one digit
ValueError(text) ==
    LET body == IF text # <<>> /\ Head(text) \in {"-", "+"} THEN Tail(text)
                ELSE text
    IN  body = <<>> \/ \E i \in DOMAIN body : ~ IsDigit(body[i])

\* int(text) for a text that int() accepts
int(text) ==
    IF Head(text) = "-" THEN 0 - DigitsValue(Tail(text), 0)
    ELSE IF Head(text) = "+" THEN DigitsValue(Tail(text), 0)
    ELSE DigitsValue(text, 0)

\* a request between its load and its commit: what it was sent (args) and
\* what its session holds (snap)
Session(kind, user, args, snap) ==
    [kind |-> kind, user |-> user, args |-> args, snap |-> snap]

InFlight == BagToSet(reqs)

\* a worker is free to take a request
FreeSlot == BagCardinality(reqs) < NumSlots

\* the handler has not answered yet: it goes on to its commit
Continue == [status |-> 0, error |-> "", total |-> 0]

Response(status, error, total) ==
    [status |-> status, error |-> error, total |-> total]

Quiescent == reqs = EmptyBag

\* ---------------------------------------------------------------- models
\* a stock row that takes a price where none is given
Stock_CostAsPrice(product_id, condition, quantity, price) ==
    [product_id |-> product_id, condition |-> condition,
     quantity |-> quantity, price |-> IF price = 0 THEN 7 ELSE price]

Stock(product_id, condition, quantity, price) ==
    [product_id |-> product_id, condition |-> condition,
     quantity |-> quantity, price |-> price]

CartItem(id, user_id, product_id, stock_id, quantity) ==
    [id |-> id, user_id |-> user_id, product_id |-> product_id,
     stock_id |-> stock_id, quantity |-> quantity]

Order(user_id, total) ==
    [user_id |-> user_id, status |-> "pending", total |-> total]

OrderItem(order_id, product_id, quantity, price) ==
    [order_id |-> order_id, product_id |-> product_id,
     quantity |-> quantity, price |-> price]

Account(initial) ==
    [initial |-> initial, added |-> 0, removed |-> 0, sold |-> 0]

\* ---------------------------------------------------------------- init
\* seed_database.py: every seeded product gets one NM stock line with a
\* positive quantity and its price; the other tables are empty.
Init ==
    /\ products = Products
    /\ stocks \in [Products -> [product_id : Products, condition : {"NM"},
                                quantity : 1..MaxSeedQty, price : {30, 45}]]
    /\ \A p \in Products :
           stocks[p].product_id = p /\ stocks[p].price = SeedPrice(p)
    /\ cart_items = {}
    /\ next_cart_id = 1
    /\ orders = <<>>
    /\ order_codes = <<>>
    /\ order_items = <<>>
    /\ stock_orders = <<>>
    /\ stock_order_items = <<>>
    /\ reqs = EmptyBag
    /\ acct = [p \in Products |-> Account(stocks[p].quantity)]

\* ---------------------------------------------------------------- cart
NoRow == CartItem(0, 0, 0, 0, 0)

CartIds == 1..(MaxCartId + 1)
StockIds == 1..MaxStocks

\* CartItem.query.filter_by(user_id=, product_id=, stock_id=)
CartMatches(u, p, s) ==
    {c \in cart_items : c.user_id = u /\ c.product_id = p /\ c.stock_id = s}

\* a query without the filter on the user
CartOf_Everyone(u) == cart_items

\* CartItem.query.filter_by(user_id=current_user.id).all()
CartOf(u) == {c \in cart_items : c.user_id = u}

\* a test that only asks whether the stock line is empty
NotEnoughStock_EmptyOnly(stock, quantity) == stock.quantity <= 0

\* a test that refuses a request for all the stock line holds
NotEnoughStock_Strict(stock, quantity) == stock.quantity <= quantity

\* add_to_cart's availability test: TRUE when the request is refused
NotEnoughStock(stock, quantity) == stock.quantity < quantity

\* what add_to_cart answers before it touches the cart: 404 from
\* get_or_404, 400 from the availability test, or nothing yet
add_to_cart_response(s, q) ==
    IF s \notin DOMAIN stocks THEN Response(404, "Not Found", 0)
    ELSE IF NotEnoughStock(stocks[s], q) THEN Response(400, "Not enough stock", 0)
    ELSE Continue

\* add_to_cart, up to the query for an existing cart line: a refused request
\* returns and leaves everything as it is; otherwise the matching cart line,
\* if any, is loaded into the session.  .first() has no ORDER BY: with several
\* matching rows any of them may be the one.
add_to_cart_load(u, p, s, q) ==
    /\ FreeSlot
    /\ IF add_to_cart_response(s, q) # Continue
       THEN UNCHANGED vars
       ELSE /\ \E e \in (IF CartMatches(u, p, s) = {} THEN {NoRow}
                         ELSE CartMatches(u, p, s)) :
                /\ e.quantity + q <= MaxCartQty
                /\ e.quantity + q >= 0 - MaxCartQty
                /\ reqs' = reqs (+) SetToBag({Session("add_to_cart", u,
                       [product_id |-> p, stock_id |-> s, quantity |-> q], e)})
            /\ UNCHANGED db

\* the UPDATE of the loaded cart line matches no row: StaleDataError
add_to_cart_stale(sess) ==
    /\ sess.snap.id # 0
    /\ sess.args.quantity # 0
    /\ ~ \E c \in cart_items : c.id = sess.snap.id

\* add_to_cart, from "if existing" to the response: the loaded line gets
\* quantity = loaded quantity + requested (UPDATE by primary key, emitted only
\* when the value changed; when no row matches the session is rolled back),
\* or a new line is inserted.
add_to_cart_commit(sess) ==
    /\ BagIn(sess, reqs) /\ sess.kind = "add_to_cart"
    /\ LET a == sess.args
           e == sess.snap
       IN  IF e.id = 0
           THEN /\ cart_items' = cart_items \cup
                       {CartItem(next_cart_id, sess.user, a.product_id,
                                 a.stock_id, a.quantity)}
                /\ next_cart_id' = next_cart_id + 1
           ELSE IF add_to_cart_stale(sess)
           THEN UNCHANGED <<cart_items, next_cart_id>>
           ELSE /\ cart_items' =
                       {IF c.id = e.id
                        THEN [c EXCEPT !.quantity = e.quantity + a.quantity]
                        ELSE c : c \in cart_items}
                /\ next_cart_id' = next_cart_id
    /\ reqs' = reqs (-) SetToBag({sess})
    /\ UNCHANGED <<products, stocks, orders, order_codes, order_items,
                   stock_orders, stock_order_items, acct>>

\* an answer that looks only for the row
cart_item_response_NoOwner(u, id) ==
    IF ~ \E c \in cart_items : c.id = id THEN Response(404, "Not Found", 0)
    ELSE Continue

\* get_or_404 and the ownership test shared by update_cart_item and
\* remove_from_cart
cart_item_response(u, id) ==
    IF ~ \E c \in cart_items : c.id = id THEN Response(404, "Not Found", 0)
    ELSE IF (CHOOSE c \in cart_items : c.id = id).user_id # u
    THEN Response(403, "Unauthorized", 0)
    ELSE Continue

\* an update that gives the line no more than its stock line holds
update_cart_item_StockCapped(u, id, q) ==
    /\ IF cart_item_response(u, id) # Continue
       THEN UNCHANGED cart_items
       ELSE LET item == CHOOSE c \in cart_items : c.id = id
                have == stocks[item.stock_id].quantity
            IN  cart_items' =
                    IF q <= 0 THEN cart_items \ {item}
                    ELSE (cart_items \ {item}) \cup
                         {[item EXCEPT !.quantity = IF q <= have THEN q ELSE have]}
    /\ UNCHANGED <<products, stocks, next_cart_id, orders, order_codes,
                   order_items, stock_orders, stock_order_items, reqs, acct>>

\* update_cart_item: 404 for an unknown id, 403 for another user's line,
\* quantity <= 0 deletes the line, any other quantity overwrites it.
update_cart_item(u, id, q) ==
    /\ IF cart_item_response(u, id) # Continue
       THEN UNCHANGED cart_items
       ELSE LET item == CHOOSE c \in cart_items : c.id = id
            IN  cart_items' =
                    IF q <= 0 THEN cart_items \ {item}
                    ELSE (cart_items \ {item}) \cup {[item EXCEPT !.quantity = q]}
    /\ UNCHANGED <<products, stocks, next_cart_id, orders, order_codes,
                   order_items, stock_orders, stock_order_items, reqs, acct>>

\* remove_from_cart: 404, 403, or the line is deleted.
remove_from_cart(u, id) ==
    /\ IF cart_item_response(u, id) # Continue
       THEN UNCHANGED cart_items
       ELSE cart_items' = {c \in cart_items : c.id # id}
    /\ UNCHANGED <<products, stocks, next_cart_id, orders, order_codes,
                   order_items, stock_orders, stock_order_items, reqs, acct>>

\* ---------------------------------------------------------------- checkout
\* the Stock rows reached through item.stock, as the session holds them
StockView(items) ==
    [s \in {c.stock_id : c \in items} |->
        [quantity |-> stocks[s].quantity, price |-> stocks[s].price]]

RECURSIVE LineTotals(_, _)
LineTotals(items, view) ==
    IF items = <<>> THEN <<>>
    ELSE <<view[Head(items).stock_id].price * Head(items).quantity>>
         \o LineTotals(Tail(items), view)

RECURSIVE LinePrices(_, _)
LinePrices(items, view) ==
    IF items = <<>> THEN <<>>
    ELSE <<view[Head(items).stock_id].price>> \o LinePrices(Tail(items), view)

\* a total that forgets the quantities
CartTotal_PricesOnly(items, view) == SumSeq(LinePrices(items, view))

\* total = sum(item.stock.price * item.quantity for item in cart_items)
CartTotal(items, view) == SumSeq(LineTotals(items, view))

\* an answer that lets every cart through
checkout_response_NeverEmpty(u) == Continue

\* what checkout answers before it creates the order
checkout_response(u) ==
    IF CartOf(u) = {} THEN Response(400, "Cart is empty", 0) ELSE Continue

\* checkout, up to the computation of the total: the user's cart lines and
\* their stock rows are loaded; an empty cart is refused.
checkout_load(u) ==
    /\ FreeSlot
    /\ IF checkout_response(u) # Continue
       THEN UNCHANGED vars
       ELSE /\ reqs' = reqs (+) SetToBag({Session("checkout", u, <<>>,
                    [items |-> SortedSeq(CartOf(u)),
                     view |-> StockView(CartOf(u)),
                     total |-> CartTotal(SortedSeq(CartOf(u)),
                                         StockView(CartOf(u)))])})
            /\ UNCHANGED db

\* "Reduce stock": item.stock.quantity -= item.quantity
ReduceStock(quantity, by) == quantity - by

RECURSIVE CheckoutLoop(_, _, _)
\* the loop over cart_items: one OrderItem per line, at the stock row's
\* price, and the stock row's quantity reduced in the session
CheckoutLoop(items, order_id, acc) ==
    IF items = <<>> THEN acc
    ELSE LET item == Head(items)
             st == acc.view[item.stock_id]
         IN  CheckoutLoop(Tail(items), order_id,
                 [lines |-> Append(acc.lines,
                        OrderItem(order_id, item.product_id, item.quantity, st.price)),
                  view |-> [acc.view EXCEPT ![item.stock_id].quantity =
                                ReduceStock(st.quantity, item.quantity)],
                  sold |-> [acc.sold EXCEPT ![item.stock_id] = @ + item.quantity]])

\* the session after checkout's loop
CheckoutResult(sess, order_id) ==
    CheckoutLoop(sess.snap.items, order_id,
        [lines |-> <<>>, view |-> sess.snap.view,
         sold |-> [x \in DOMAIN sess.snap.view |-> 0]])

\* the JSON checkout returns after its commit
checkout_success(sess) == Response(200, "", sess.snap.total)

\* the order codes uuid.uuid4().hex[:8] can come out as
Codes == 1..MaxCodes

\* a unique column without its constraint
CodeTaken_Never(code) == FALSE

\* Order.code is unique=True: the INSERT of an order whose code another
\* order has raises IntegrityError
CodeTaken(code) == \E o \in DOMAIN order_codes : order_codes[o] = code

\* a code no order has: what uuid4 gives in all but one of 2^32 draws
FreshCode == CHOOSE c \in 1..(Len(order_codes) + 1) : ~ CodeTaken(c)

\* checkout, from Order(...) to the response, with the order code drawn:
\* one transaction inserts the order and its lines, writes the reduced
\* quantity of every stock row whose quantity changed in the session, and
\* deletes the loaded cart lines.  When the code is taken the INSERT fails
\* and nothing is committed.
checkout_transaction(sess, code) ==
    /\ LET s == sess.snap
           order_id == Len(orders) + 1
           out == CheckoutResult(sess, order_id)
       IN  IF CodeTaken(code)
           THEN UNCHANGED <<orders, order_codes, order_items, stocks,
                            cart_items, acct>>
           ELSE
           /\ orders' = Append(orders, Order(sess.user, s.total))
           /\ order_codes' = Append(order_codes, code)
           /\ order_items' = order_items \o out.lines
           /\ stocks' = [x \in DOMAIN stocks |->
                  IF x \in DOMAIN s.view /\ out.view[x].quantity # s.view[x].quantity
                  THEN [stocks[x] EXCEPT !.quantity = out.view[x].quantity]
                  ELSE stocks[x]]
           /\ cart_items' = {c \in cart_items :
                                \A i \in DOMAIN s.items : s.items[i].id # c.id}
           /\ acct' = [x \in DOMAIN acct |->
                  IF x \in DOMAIN s.view
                  THEN [acct[x] EXCEPT !.sold = @ + out.sold[x]]
                  ELSE acct[x]]
    /\ reqs' = reqs (-) SetToBag({sess})
    /\ UNCHANGED <<products, next_cart_id, stock_orders, stock_order_items>>

\* a commit that waits until the stock rows are again as the session read
\* them
checkout_commit_Waiting(sess) ==
    /\ BagIn(sess, reqs) /\ sess.kind = "checkout"
    /\ \A x \in DOMAIN sess.snap.view :
           stocks[x].quantity = sess.snap.view[x].quantity
    /\ checkout_transaction(sess, FreshCode)

\* the rest of a checkout request that loaded a cart: nothing it waits for,
\* no lock it asks for
checkout_commit(sess) ==
    /\ BagIn(sess, reqs) /\ sess.kind = "checkout"
    /\ checkout_transaction(sess, FreshCode)

\* the same with whatever code uuid4 draws, a taken one included
checkout_commit_any(sess, code) ==
    /\ BagIn(sess, reqs) /\ sess.kind = "checkout"
    /\ checkout_transaction(sess, code)

\* the answer of a checkout that drew this code
checkout_commit_response(sess, code) ==
    IF CodeTaken(code) THEN Response(500, "Internal Server Error", 0)
    ELSE checkout_success(sess)

\* ---------------------------------------------------------------- orders
\* the status field of the admin's form: the five statuses of the model's
\* comment and one that is none of them
StatusInputs == {"pending", "paid", "shipped", "delivered", "cancelled", "refunded"}

\* a status update that also voids the amount of a cancelled order
update_order_status_ZeroesCancelled(id, status) ==
    /\ IF id \notin DOMAIN orders THEN UNCHANGED orders
       ELSE orders' = [orders EXCEPT ![id].status = status,
                                     ![id].total = IF status = "cancelled"
                                                   THEN 0 ELSE @]
    /\ UNCHANGED <<products, stocks, cart_items, next_cart_id, order_codes,
                   order_items, stock_orders, stock_order_items, reqs, acct>>

\* a status update that puts the units of a cancelled order back on the
\* stock rows of its products
update_order_status_Restocks(id, status) ==
    /\ IF id \notin DOMAIN orders THEN UNCHANGED <<orders, stocks>>
       ELSE /\ orders' = [orders EXCEPT ![id].status = status]
            /\ stocks' =
                  IF status # "cancelled" THEN stocks
                  ELSE [x \in DOMAIN stocks |->
                          [stocks[x] EXCEPT !.quantity = @ + SumSeq(
                              [i \in DOMAIN order_items |->
                                  IF order_items[i].order_id = id
                                     /\ order_items[i].product_id = stocks[x].product_id
                                  THEN order_items[i].quantity ELSE 0])]]
    /\ UNCHANGED <<products, cart_items, next_cart_id, order_codes,
                   order_items, stock_orders, stock_order_items, reqs, acct>>

\* update_order_status: 404 for an unknown id; otherwise the status is set
\* to whatever the form sent
update_order_status(id, status) ==
    /\ IF id \notin DOMAIN orders THEN UNCHANGED orders
       ELSE orders' = [orders EXCEPT ![id].status = status]
    /\ UNCHANGED <<products, stocks, cart_items, next_cart_id, order_codes,
                   order_items, stock_orders, stock_order_items, reqs, acct>>

\* ---------------------------------------------------------------- stock orders
StockOrder(order_type) == [order_type |-> order_type, status |-> "completed"]

StockOrderItem(stock_order_id, product_id, quantity, condition, cost_per_item, notes) ==
    [stock_order_id |-> stock_order_id, product_id |-> product_id,
     quantity |-> quantity, condition |-> condition,
     cost_per_item |-> cost_per_item, notes |-> notes]

\* the form's quantities[] and costs[] / reasons[] entries
StockQtyInputs == 1..MaxQty
Costs == {7}
Reasons == {"damaged"}
\* product_ids[]: the products of the catalogue and the ids after them
FormProductIds == 1..(NumProducts + MaxNewProducts)
\* quantities[]: the text of a number, negative, zero or positive, or of
\* something that is not a number
FormQtyInputs == (0 - 1)..MaxQty
FormQuantities == {Str(n) : n \in FormQtyInputs} \cup {<<"x">>}
LineInputs == [product_id : FormProductIds, condition : Conditions,
               quantity : FormQuantities, cost : Costs, reason : Reasons]
BatchInputs == UNION {[1..n -> LineInputs] : n \in 1..MaxLines}
\* the batches of an admin who fills the form in as it is meant: known
\* products, positive quantities
LedgerLines ==
    {l \in LineInputs : /\ l.product_id \in Products
                        /\ ~ ValueError(l.quantity)
                        /\ int(l.quantity) \in StockQtyInputs}
LedgerBatches == UNION {[1..n -> LedgerLines] : n \in 1..MaxLines}

\* a lookup by product alone
FindStock_AnyCondition(view, p, c) ==
    LET hits == {i \in DOMAIN view : view[i].product_id = p}
    IN  IF hits = {} THEN 0 ELSE CHOOSE i \in hits : \A j \in hits : i <= j

\* Stock.query.filter_by(product_id=, condition=).first(): the id of the
\* first matching row of the session's view, 0 when there is none
FindStock(view, p, c) ==
    LET hits == {i \in DOMAIN view :
                    view[i].product_id = p /\ view[i].condition = c}
    IN  IF hits = {} THEN 0 ELSE CHOOSE i \in hits : \A j \in hits : i <= j

\* a reduction without the floor
StockOutQuantity_NoFloor(current, quantity) == current - quantity

\* stock-out's new quantity: max(0, stock.quantity - quantity)
StockOutQuantity(current, quantity) == Max(0, current - quantity)

\* stock-in's new quantity: stock.quantity += quantity
StockInQuantity(current, quantity) == current + quantity

Moved(added, removed) == [added |-> added, removed |-> removed]

RECURSIVE StockInLoop(_, _)
\* the stock_in loop: an audit line per form line; the stock row of the
\* (product, condition) pair is increased, or created with price 0
StockInLoop(lines, acc) ==
    IF lines = <<>> THEN acc
    ELSE IF ValueError(Head(lines).quantity) THEN [acc EXCEPT !.failed = TRUE]
    ELSE LET l == Head(lines)
             quantity == int(l.quantity)
             found == FindStock(acc.view, l.product_id, l.condition)
             item == StockOrderItem(0, l.product_id, quantity, l.condition,
                                    l.cost, "")
         IN  StockInLoop(Tail(lines),
                 IF found # 0
                 THEN [view |-> [acc.view EXCEPT ![found].quantity =
                                    StockInQuantity(@, quantity)],
                       items |-> Append(acc.items, item),
                       moved |-> [acc.moved EXCEPT ![found].added = @ + quantity],
                       failed |-> FALSE]
                 ELSE [view |-> Append(acc.view,
                                    Stock(l.product_id, l.condition, quantity, 0)),
                       items |-> Append(acc.items, item),
                       moved |-> Append(acc.moved, Moved(quantity, 0)),
                       failed |-> FALSE])

RECURSIVE StockOutLoop(_, _)
\* the stock-out loop: an audit line per form line carrying the form's
\* quantity; the stock row, when there is one, is reduced and floored at 0
StockOutLoop(lines, acc) ==
    IF lines = <<>> THEN acc
    ELSE IF ValueError(Head(lines).quantity) THEN [acc EXCEPT !.failed = TRUE]
    ELSE LET l == Head(lines)
             quantity == int(l.quantity)
             found == FindStock(acc.view, l.product_id, l.condition)
             item == StockOrderItem(0, l.product_id, quantity, l.condition,
                                    0, l.reason)
         IN  StockOutLoop(Tail(lines),
                 IF found # 0
                 THEN [view |-> [acc.view EXCEPT ![found].quantity =
                                    StockOutQuantity(@, quantity)],
                       items |-> Append(acc.items, item),
                       moved |-> [acc.moved EXCEPT ![found].removed =
                                    @ + (acc.view[found].quantity
                                         - StockOutQuantity(acc.view[found].quantity,
                                                            quantity))],
                       failed |-> FALSE]
                 ELSE [view |-> acc.view,
                       items |-> Append(acc.items, item),
                       moved |-> acc.moved,
                       failed |-> FALSE])

\* the session after save_stock_order's loop over the form lines
StockOrderResult(order_type, lines) ==
    LET start == [view |-> stocks, items |-> <<>>,
                  moved |-> [x \in DOMAIN stocks |-> Moved(0, 0)],
                  failed |-> FALSE]
    IN  IF order_type = "stock_in" THEN StockInLoop(lines, start)
        ELSE StockOutLoop(lines, start)

\* save_stock_order, up to the end of the loop over the form lines: every
\* stock row the loop touches is read and changed in the session (a query
\* flushes the session first, so a line sees the rows earlier lines created).
\* int(quantities[i]) raising ValueError ends the loop at that line.
save_stock_order_load(order_type, lines) ==
    /\ FreeSlot
    /\ LET out == StockOrderResult(order_type, lines)
       IN  /\ Len(out.view) <= MaxStocks
           /\ reqs' = reqs (+) SetToBag({Session("save_stock_order", 0,
                  [order_type |-> order_type],
                  [base |-> stocks, view |-> out.view,
                   items |-> out.items, moved |-> out.moved,
                   failed |-> out.failed])})
    /\ UNCHANGED db

\* a request whose loop raised never reaches db.session.commit(); one that
\* ran to the end of the loop does
ReachesCommit_Always(sess) == TRUE

ReachesCommit(sess) == ~ sess.snap.failed

\* what save_stock_order answers: the redirect after flash(..., 'success'),
\* or the 500 of an unhandled exception
save_stock_order_response(sess) ==
    IF ReachesCommit(sess) THEN Response(302, "", 0)
    ELSE Response(500, "Internal Server Error", 0)

\* the end of save_stock_order.  db.session.commit() and the redirect: the
\* batch, its audit lines, the new stock rows and the changed quantities are
\* written at once.  After an exception in the loop nothing was committed
\* and the session is discarded with the request.
save_stock_order_commit(sess) ==
    /\ BagIn(sess, reqs) /\ sess.kind = "save_stock_order"
    /\ LET s == sess.snap
           n == Len(s.base)
           order_id == Len(stock_orders) + 1
           created == SubSeq(s.view, n + 1, Len(s.view))
       IN  IF ~ ReachesCommit(sess)
           THEN UNCHANGED <<stocks, stock_orders, stock_order_items, acct>>
           ELSE
           /\ stock_orders' = Append(stock_orders, StockOrder(sess.args.order_type))
           /\ stock_order_items' = stock_order_items \o
                  [i \in DOMAIN s.items |->
                      [s.items[i] EXCEPT !.stock_order_id = order_id]]
           /\ stocks' = [x \in DOMAIN stocks |->
                            IF x <= n /\ s.view[x].quantity # s.base[x].quantity
                            THEN [stocks[x] EXCEPT !.quantity = s.view[x].quantity]
                            ELSE stocks[x]] \o created
           /\ acct' = [x \in DOMAIN acct |->
                          IF x <= n
                          THEN [acct[x] EXCEPT !.added = @ + s.moved[x].added,
                                               !.removed = @ + s.moved[x].removed]
                          ELSE acct[x]]
                      \o [i \in DOMAIN created |->
                            [Account(0) EXCEPT !.added = s.moved[n + i].added,
                                               !.removed = s.moved[n + i].removed]]
    /\ reqs' = reqs (-) SetToBag({sess})
    /\ UNCHANGED <<products, cart_items, next_cart_id, orders, order_codes,
                   order_items>>

\* ---------------------------------------------------------------- catalogue
\* request.form.get(name, default, type=int): the default when the text is
\* not a number
form_get_int(text, default) == IF ValueError(text) THEN default ELSE int(text)

\* the quantity and price fields of the add-product form
NewQuantities == {Str(1), <<"x">>}
NewPrices == {25}

\* add_product, up to its first db.session.commit(): the Product row is
\* inserted and committed, and the session knows its id
add_product_product(quantity, price) ==
    /\ FreeSlot
    /\ LET id == Cardinality(products) + 1
       IN  /\ products' = products \cup {id}
           /\ reqs' = reqs (+) SetToBag({Session("add_product", 0,
                  [quantity |-> quantity, price |-> price],
                  [product_id |-> id])})
    /\ UNCHANGED <<stocks, cart_items, next_cart_id, orders, order_codes,
                   order_items, stock_orders, stock_order_items, acct>>

\* add_product, "Add initial stock" and the second db.session.commit(): an
\* NM stock line for the new product
add_product_stock(sess) ==
    /\ BagIn(sess, reqs) /\ sess.kind = "add_product"
    /\ LET quantity == form_get_int(sess.args.quantity, 0)
       IN  /\ stocks' = Append(stocks, Stock(sess.snap.product_id, "NM",
                                             quantity, sess.args.price))
           /\ acct' = Append(acct, Account(quantity))
    /\ reqs' = reqs (-) SetToBag({sess})
    /\ UNCHANGED <<products, cart_items, next_cart_id, orders, order_codes,
                   order_items, stock_orders, stock_order_items>>

\* ---------------------------------------------------------------- system
\* the in-flight requests of one kind
Pending(kind) ==
    LET of == {x \in InFlight : x.kind = kind}
    IN  SumSeq([i \in 1..Cardinality(of) |-> CopiesIn(SortedSeqBy(of)[i], reqs)])

\* room for another cart row, order or batch within the bounds
CartRoom(n) == next_cart_id + Pending("add_to_cart") <= n
OrderRoom(n) == Len(orders) + Pending("checkout") < n
BatchRoom(n) == Len(stock_orders) + Pending("save_stock_order") < n

\* The storefront: two customers fill their carts and check out, every
\* request interleaved with every other.
Next ==
    \/ /\ CartRoom(MaxCartId)
       /\ \E u \in Users, p \in Products, s \in StockIds, q \in AddQtyInputs :
              add_to_cart_load(u, p, s, q)
    \/ \E sess \in InFlight : add_to_cart_commit(sess)
    \/ \E u \in Users, id \in CartIds, q \in QtyInputs : update_cart_item(u, id, q)
    \/ \E u \in Users, id \in CartIds : remove_from_cart(u, id)
    \/ /\ OrderRoom(MaxOrders)
       /\ \E u \in Users : checkout_load(u)
    \/ \E sess \in InFlight : checkout_commit(sess)

Spec == Init /\ [][Next]_vars

\* a checkout request that loaded a cart runs on to its commit
SpecFair ==
    Init /\ [][Next]_vars /\ WF_vars(\E sess \in InFlight : checkout_commit(sess))

\* The ledger: the admin's stock-in and stock-out batches next to one
\* customer's cart and checkout, every request interleaved with every other.
NextLedger ==
    \/ /\ CartRoom(LedgerCartId)
       /\ \E s \in StockIds, q \in StockQtyInputs :
              /\ s \in DOMAIN stocks
              /\ add_to_cart_load(1, stocks[s].product_id, s, q)
    \/ \E sess \in InFlight : add_to_cart_commit(sess)
    \/ /\ OrderRoom(LedgerOrders)
       /\ checkout_load(1)
    \/ \E sess \in InFlight : checkout_commit(sess)
    \/ /\ BatchRoom(MaxBatches)
       /\ \E t \in {"stock_in", "stock_out"}, lines \in LedgerBatches :
              save_stock_order_load(t, lines)
    \/ \E sess \in InFlight : save_stock_order_commit(sess)

SpecLedger == Init /\ [][NextLedger]_vars

\* batches of one line, filled in as the form is meant
OrdersBatches == [1..1 -> LedgerLines]

\* The order desk: one customer fills the cart and checks out, again after
\* an order, while the admin moves orders through their statuses and saves
\* a stock batch, every request interleaved with every other.
NextOrders ==
    \/ /\ CartRoom(MaxCartId)
       /\ \E s \in StockIds, q \in StockQtyInputs :
              /\ s \in DOMAIN stocks
              /\ add_to_cart_load(1, stocks[s].product_id, s, q)
    \/ \E sess \in InFlight : add_to_cart_commit(sess)
    \/ /\ OrderRoom(MaxOrders)
       /\ checkout_load(1)
    \/ \E sess \in InFlight, code \in Codes : checkout_commit_any(sess, code)
    \/ \E id \in 1..MaxOrders, status \in StatusInputs :
           update_order_status(id, status)
    \/ /\ BatchRoom(MaxBatches)
       /\ \E t \in {"stock_in", "stock_out"}, lines \in OrdersBatches :
              save_stock_order_load(t, lines)
    \/ \E sess \in InFlight : save_stock_order_commit(sess)

SpecOrders == Init /\ [][NextOrders]_vars

ProductRoom(n) == Cardinality(products) < n

\* The stock room: the admin adds a product and saves a stock-in or
\* stock-out batch with whatever the form lets through, the two requests
\* interleaved.
NextStock ==
    \/ /\ BatchRoom(MaxBatches)
       /\ \E t \in {"stock_in", "stock_out"}, lines \in BatchInputs :
              save_stock_order_load(t, lines)
    \/ \E sess \in InFlight : save_stock_order_commit(sess)
    \/ /\ ProductRoom(NumProducts + MaxNewProducts)
       /\ \E quantity \in NewQuantities, price \in NewPrices :
              add_product_product(quantity, price)
    \/ \E sess \in InFlight : add_product_stock(sess)

SpecStock == Init /\ [][NextStock]_vars

\* stock-in batches of single units
CatalogLines == {l \in LineInputs : l.quantity = Str(1)}
CatalogBatches == UNION {[1..n -> CatalogLines] : n \in 1..MaxLines}

\* The catalogue: admins add products and save stock-in batches at the same
\* time, every request interleaved with every other.
NextCatalog ==
    \/ /\ BatchRoom(MaxCatalogBatches)
       /\ \E lines \in CatalogBatches : save_stock_order_load("stock_in", lines)
    \/ \E sess \in InFlight : save_stock_order_commit(sess)
    \/ /\ ProductRoom(NumProducts + MaxNewProducts)
       /\ \E quantity \in NewQuantities, price \in NewPrices :
              add_product_product(quantity, price)
    \/ \E sess \in InFlight : add_product_stock(sess)

SpecCatalog == Init /\ [][NextCatalog]_vars

\* ---------------------------------------------------------------- claims
\* what a checkout session asks of stock line s, over all its cart lines
Asked(sess, s) ==
    SumSeq([i \in DOMAIN sess.snap.items |->
               IF sess.snap.items[i].stock_id = s
               THEN sess.snap.items[i].quantity ELSE 0])

\* a loaded cart line asks more than the stock row the checkout read has
Insufficient(sess) ==
    \E i \in DOMAIN sess.snap.items :
        sess.snap.items[i].quantity >
            sess.snap.view[sess.snap.items[i].stock_id].quantity

\* C1: after any sequence and interleaving of cart, checkout and stock
\* operations, every stock line's quantity is >= 0.
C1_StockNeverNegative == \A s \in DOMAIN stocks : stocks[s].quantity >= 0

\* C2: a checkout whose cart holds a line that asks more than its stock line
\* has is rejected and changes nothing: no order, no order line, no stock
\* quantity and no cart line changes.
C2_InsufficientCheckoutChangesNothing ==
    [][\A sess \in InFlight :
          (sess.kind = "checkout" /\ Insufficient(sess) /\ checkout_commit(sess))
          => UNCHANGED <<orders, order_items, stocks, cart_items>>]_vars

\* C10: add_to_cart asking more than the stock line holds answers 400 "Not
\* enough stock", takes no further step and leaves the cart as it is.
C10_AddBeyondStockRefused ==
    \A u \in Users, p \in Products, s \in DOMAIN stocks, q \in AddQtyInputs :
        q > stocks[s].quantity =>
            /\ add_to_cart_response(s, q) = Response(400, "Not enough stock", 0)
            /\ ~ ENABLED (add_to_cart_load(u, p, s, q) /\ vars' # vars)

\* a customer holds a cart line and asks for more than the stock line has
C10_Witness ==
    \E c \in cart_items : \E q \in AddQtyInputs :
        /\ q > stocks[c.stock_id].quantity
        /\ Len(orders) > 0
        /\ FreeSlot

\* the checkout session has the only unit of a stock line in its cart, read
\* the line when the unit was there, and another customer's checkout has
\* taken the unit since
C3_LostTheRace(sess) ==
    /\ sess.kind = "checkout"
    /\ Len(sess.snap.items) = 1
    /\ sess.snap.items[1].quantity = 1
    /\ sess.snap.view[sess.snap.items[1].stock_id].quantity = 1
    /\ stocks[sess.snap.items[1].stock_id].quantity = 0
    /\ acct[sess.snap.items[1].stock_id].sold = 1
    /\ Len(orders) = 1
    /\ orders[1].user_id # sess.user

\* C3: of the customers who check out the last unit of a stock line at the
\* same time exactly one gets an order; the checkout that lost the race
\* creates none.
C3_OneCheckoutWins ==
    [][\A sess \in InFlight :
          (C3_LostTheRace(sess) /\ checkout_commit(sess))
          => Len(orders') = Len(orders)]_vars

\* C4: a checkout that commits next to a stock adjustment on the same stock
\* line loses no update: it takes its units off the quantity the adjustment
\* left (the first order, so no other checkout has written the line).
C4_NoLostUpdate ==
    [][\A sess \in InFlight :
          (sess.kind = "checkout" /\ Len(orders) = 0 /\ checkout_commit(sess))
          => \A s \in DOMAIN sess.snap.view :
                 stocks'[s].quantity = stocks[s].quantity - Asked(sess, s)]_vars

\* the four effects of the commit of a checkout session, all present
C5_AllFour(sess) ==
    /\ orders' = Append(orders, Order(sess.user, sess.snap.total))
    /\ Len(order_items') = Len(order_items) + Len(sess.snap.items)
    /\ \A s \in DOMAIN sess.snap.view :
           stocks'[s].quantity = sess.snap.view[s].quantity - Asked(sess, s)
    /\ \A i \in DOMAIN sess.snap.items :
           \A c \in cart_items' : c.id # sess.snap.items[i].id

\* C5: a step either creates no order and no order line, or it is the commit
\* of a checkout with all four effects (order, one line per cart line, every
\* stock line reduced, the cart lines deleted) and every line of it was
\* covered by the stock the checkout read.
C5_AtomicValidatedCommit ==
    [][\/ (orders' = orders /\ order_items' = order_items)
       \/ \E sess \in InFlight :
              /\ sess.kind = "checkout"
              /\ reqs' = reqs (-) SetToBag({sess})
              /\ C5_AllFour(sess)
              /\ ~ Insufficient(sess)]_vars

\* the lines of order o
LinesOf(o) == SelectSeq(order_items, LAMBDA l : l.order_id = o)

RECURSIVE LineAmounts(_)
LineAmounts(ls) ==
    IF ls = <<>> THEN <<>>
    ELSE <<Head(ls).price * Head(ls).quantity>> \o LineAmounts(Tail(ls))

\* C6: every order's total is the sum of price * quantity over its lines.
C6_TotalIsSumOfLines ==
    \A o \in DOMAIN orders : orders[o].total = SumSeq(LineAmounts(LinesOf(o)))

\* an order of two lines, one of them for more than one unit
C6_Witness ==
    \E o \in DOMAIN orders :
        /\ Len(LinesOf(o)) = 2
        /\ \E i \in 1..2 : LinesOf(o)[i].quantity = 2
        /\ LinesOf(o)[1].price # LinesOf(o)[2].price

\* nothing has touched the cart or the stock rows since the checkout read them
C7_Undisturbed(sess) ==
    /\ CartOf(sess.user) = {sess.snap.items[i] : i \in DOMAIN sess.snap.items}
    /\ sess.snap.view = StockView(CartOf(sess.user))

\* C7: a checkout that commits, undisturbed, a cart whose every line asks
\* at least one unit and is covered by its stock line leaves one new order
\* with total = sum of (stock price * cart quantity), one order line per
\* cart line with that
\* quantity and price, each line's stock line reduced by exactly the cart
\* line's quantity and no cart line of that user; the response total is the
\* order's total.
C7_CommitPostState ==
    [][\A sess \in InFlight :
          (sess.kind = "checkout" /\ C7_Undisturbed(sess) /\ ~ Insufficient(sess)
             /\ (\A c \in CartOf(sess.user) : c.quantity >= 1)
             /\ checkout_commit(sess))
          => LET cart == SortedSeq(CartOf(sess.user))
                 n == Len(orders) + 1
             IN  /\ Len(orders') = n
                 /\ orders'[n].total =
                        SumSeq([i \in DOMAIN cart |->
                            stocks[cart[i].stock_id].price * cart[i].quantity])
                 /\ Len(order_items') = Len(order_items) + Len(cart)
                 /\ \A i \in DOMAIN cart :
                        LET l == order_items'[Len(order_items) + i]
                        IN  /\ l.order_id = n
                            /\ l.quantity = cart[i].quantity
                            /\ l.price = stocks[cart[i].stock_id].price
                 /\ \A i \in DOMAIN cart :
                        stocks'[cart[i].stock_id].quantity =
                            stocks[cart[i].stock_id].quantity - cart[i].quantity
                 /\ \A c \in cart_items' : c.user_id # sess.user
                 /\ checkout_success(sess).total = orders'[n].total]_vars

\* C8: when no request is in flight, every stock line holds what was seeded
\* plus what was stocked in, minus what stock-out removed, minus what was
\* sold, and never more was sold or removed than was there.
C8_ExactAccounting ==
    Quiescent =>
        \A s \in DOMAIN stocks :
            /\ stocks[s].quantity =
                   acct[s].initial + acct[s].added - acct[s].removed - acct[s].sold
            /\ acct[s].removed + acct[s].sold <= acct[s].initial + acct[s].added

\* C9: there is at most one cart line per (user, product, stock line).
C9_OneLinePerTriple ==
    \A c1, c2 \in cart_items :
        (c1.user_id = c2.user_id /\ c1.product_id = c2.product_id
            /\ c1.stock_id = c2.stock_id) => c1 = c2

\* C11: every cart line has quantity >= 1, whatever quantity add_to_cart
\* and update_cart_item were sent.
C11_CartQuantityPositive == \A c \in cart_items : c.quantity >= 1

\* row x is the one a stock-order line for its (product, condition) finds
FirstOfPair(x) == FindStock(stocks, stocks[x].product_id, stocks[x].condition) = x

\* the session is a stock-out batch whose loop ran to its end on the stock
\* rows as they still are
StockOutBatch(sess) ==
    /\ sess.kind = "save_stock_order"
    /\ sess.args.order_type = "stock_out"
    /\ ~ sess.snap.failed
    /\ sess.snap.base = stocks

RECURSIVE C12_Left(_, _, _)
\* what is left of c units after the requests of the audit lines for row's
\* (product, condition), each taking what it asks or all there is
C12_Left(c, items, row) ==
    IF items = <<>> THEN c
    ELSE LET l == Head(items)
             hit == l.product_id = row.product_id /\ l.condition = row.condition
         IN  C12_Left(IF ~ hit THEN c
                      ELSE IF c >= l.quantity THEN c - l.quantity ELSE 0,
                      Tail(items), row)

\* C12: a stock-out line asking q of a stock line holding c leaves it with
\* max(0, c - q); asking more than there is is no error: the batch is
\* committed as completed and answered as a success.
C12_StockOutClamps ==
    [][\A sess \in InFlight :
          (StockOutBatch(sess) /\ save_stock_order_commit(sess))
          => /\ \A x \in DOMAIN stocks :
                    FirstOfPair(x) =>
                        stocks'[x].quantity =
                            C12_Left(stocks[x].quantity, sess.snap.items, stocks[x])
             /\ Len(stock_orders') = Len(stock_orders) + 1
             /\ stock_orders'[Len(stock_orders')] = StockOrder("stock_out")
             /\ save_stock_order_response(sess) = Response(302, "", 0)]_vars

\* a committed stock-out asked more of a stock line than it held: the line
\* is empty and fewer units were removed than asked
C12_Witness ==
    \E i \in DOMAIN stock_order_items : \E x \in DOMAIN stocks :
        /\ stock_orders[stock_order_items[i].stock_order_id].order_type = "stock_out"
        /\ stock_order_items[i].product_id = stocks[x].product_id
        /\ stock_order_items[i].condition = stocks[x].condition
        /\ stocks[x].quantity = 0
        /\ acct[x].removed >= 1
        /\ stock_order_items[i].quantity > acct[x].removed

\* the quantities of the audit lines written for row's (product, condition)
AuditedFor(items, row) ==
    SumSeq([i \in DOMAIN items |->
               IF items[i].product_id = row.product_id
                  /\ items[i].condition = row.condition
               THEN items[i].quantity ELSE 0])

\* C13: the audit lines of a stock-out record what was actually removed
\* from the stock line, not what was asked.
C13_AuditRecordsRemoved ==
    [][\A sess \in InFlight :
          (StockOutBatch(sess) /\ save_stock_order_commit(sess))
          => \A x \in DOMAIN stocks :
                 FirstOfPair(x) =>
                     AuditedFor(SubSeq(stock_order_items',
                                       Len(stock_order_items) + 1,
                                       Len(stock_order_items')), stocks[x])
                         = stocks[x].quantity - stocks'[x].quantity]_vars

\* the session is a stock-in batch whose loop ran to its end on the stock
\* rows as they still are
StockInBatch(sess) ==
    /\ sess.kind = "save_stock_order"
    /\ sess.args.order_type = "stock_in"
    /\ ~ sess.snap.failed
    /\ sess.snap.base = stocks

\* what C14 says of the commit of a stock-in batch
C14_PostState(sess) ==
    LET items == sess.snap.items
    IN  /\ save_stock_order_response(sess) = Response(302, "", 0)
        /\ stock_orders' = Append(stock_orders, StockOrder("stock_in"))
        /\ \A x \in DOMAIN stocks :
               FirstOfPair(x) =>
                   stocks'[x].quantity =
                       stocks[x].quantity + AuditedFor(items, stocks[x])
        /\ \A x \in DOMAIN stocks' \ DOMAIN stocks :
               /\ stocks'[x].price = 0
               /\ stocks'[x].quantity = AuditedFor(items, stocks'[x])
        /\ Len(stock_order_items') = Len(stock_order_items) + Len(items)
        /\ \A i \in DOMAIN items :
               LET a == stock_order_items'[Len(stock_order_items) + i]
               IN  /\ a.product_id = items[i].product_id
                   /\ a.condition = items[i].condition
                   /\ a.quantity = items[i].quantity
                   /\ a.cost_per_item \in Costs
        /\ \A x \in DOMAIN stocks : stocks'[x].quantity >= stocks[x].quantity
        /\ \A x \in DOMAIN stocks' : stocks'[x].quantity >= 0

\* C14: a stock-in batch succeeds; each line creates its stock line with
\* price 0 and the line's quantity or adds its quantity to the existing
\* one, an audit line with the cost is recorded per line, and no stock
\* line's quantity is lowered or made negative.
C14_StockInOnlyAdds ==
    [][\A sess \in InFlight :
          (StockInBatch(sess) /\ save_stock_order_commit(sess))
          => C14_PostState(sess)]_vars

\* C15: a batch whose loop failed at one of its lines persists nothing: no
\* batch, no audit line and no stock quantity, the lines before the failing
\* one included.
C15_FailedBatchPersistsNothing ==
    [][\A sess \in InFlight :
          (sess.kind = "save_stock_order" /\ sess.snap.failed
             /\ save_stock_order_commit(sess))
          => UNCHANGED <<stock_orders, stock_order_items, stocks>>]_vars

\* a stock-in batch in flight failed at a later line, after an earlier line
\* was processed and changed a stock row in the session
C15_Witness ==
    \E sess \in InFlight :
        /\ sess.kind = "save_stock_order"
        /\ sess.args.order_type = "stock_in"
        /\ sess.snap.failed
        /\ Len(sess.snap.items) >= 1
        /\ sess.snap.view # sess.snap.base
        /\ sess.snap.base = stocks

\* C16: there is at most one stock line per (product_id, condition).
C16_OneStockLinePerPair ==
    \A x, y \in DOMAIN stocks :
        (stocks[x].product_id = stocks[y].product_id
            /\ stocks[x].condition = stocks[y].condition) => x = y

\* an order line for at least one unit, sold at its product's price
C17_PlainLine(l) == l.quantity >= 1 /\ l.price = SeedPrice(l.product_id)

C18_EmptyCartRefused ==
    \A u \in Users :
        CartOf(u) = {} =>
            /\ checkout_response(u) = Response(400, "Cart is empty", 0)
            /\ ~ ENABLED (checkout_load(u) /\ vars' # vars)

\* a customer whose order emptied the cart could send checkout again
C18_Witness ==
    \E u \in Users :
        /\ CartOf(u) = {}
        /\ FreeSlot
        /\ \E o \in DOMAIN orders : orders[o].user_id = u

\* C19: update_cart_item on the caller's own line deletes it when the new
\* quantity is <= 0 and otherwise sets exactly the new quantity, whatever
\* the stock line holds; no stock line and no other cart line changes.
C19_UpdateOverwritesOrDeletes ==
    [][\A u \in Users, id \in CartIds, q \in QtyInputs :
          (cart_item_response(u, id) = Continue /\ update_cart_item(u, id, q))
          => LET item == CHOOSE c \in cart_items : c.id = id
             IN  /\ q <= 0 => ~ \E c \in cart_items' : c.id = id
                 /\ q > 0 => [item EXCEPT !.quantity = q] \in cart_items'
                 /\ {c \in cart_items' : c.id # id} = {c \in cart_items : c.id # id}
                 /\ Cardinality({c \in cart_items' : c.id = id}) <= 1
                 /\ stocks' = stocks]_vars

\* a cart line asks more than its stock line holds, next to another line
C19_Witness ==
    \E c, d \in cart_items :
        /\ c.id # d.id
        /\ c.quantity = MaxQty
        /\ c.quantity > stocks[c.stock_id].quantity

\* C20: update_cart_item and remove_from_cart on another user's cart line
\* answer 403 "Unauthorized" and leave the line as it is.
C20_ForeignLineUntouched ==
    \A u \in Users : \A c \in cart_items :
        c.user_id # u =>
            /\ cart_item_response(u, c.id) = Response(403, "Unauthorized", 0)
            /\ \A q \in QtyInputs :
                   ~ ENABLED (update_cart_item(u, c.id, q) /\ vars' # vars)
            /\ ~ ENABLED (remove_from_cart(u, c.id) /\ vars' # vars)

\* both customers hold a cart line, so each could address the other's
C20_Witness ==
    \E c, d \in cart_items :
        c.user_id # d.user_id /\ c.quantity >= 1 /\ d.quantity >= 1

\* the place of a status on the way pending -> paid -> shipped -> delivered
C21_Rank(status) ==
    CASE status = "pending" -> 1
      [] status = "paid" -> 2
      [] status = "shipped" -> 3
      [] status = "delivered" -> 4
      [] OTHER -> 0

\* a status may stay, move forward along the way, or become cancelled
C21_Allowed(old, new) ==
    \/ new = old
    \/ new = "cancelled"
    \/ C21_Rank(old) >= 1 /\ C21_Rank(new) > C21_Rank(old)

\* C21: an order is created pending, and every change of its status moves
\* it forward along pending -> paid -> shipped -> delivered or to cancelled:
\* no other value and no step backward.
C21_StatusMovesForward ==
    [][/\ \A o \in DOMAIN orders' \ DOMAIN orders : orders'[o].status = "pending"
       /\ \A o \in DOMAIN orders :
              C21_Allowed(orders[o].status, orders'[o].status)]_vars

\* C22: once an order is committed, its total, its customer and every one
\* of its lines stay as they are under every later step, whether another
\* checkout, a stock batch or a status update; only its status changes.
C22_CommittedOrderFrozen ==
    [][/\ \A o \in DOMAIN orders :
              /\ o \in DOMAIN orders'
              /\ orders'[o].total = orders[o].total
              /\ orders'[o].user_id = orders[o].user_id
       /\ \A i \in DOMAIN order_items :
              i \in DOMAIN order_items' /\ order_items'[i] = order_items[i]]_vars

\* an order that was paid for has since seen its status changed to
\* cancelled, a later checkout and a stock batch
C22_Witness ==
    /\ Len(orders) = 2
    /\ orders[1].status = "cancelled" /\ orders[1].total > 0
    /\ LinesOf(1) # <<>>
    /\ Len(stock_orders) >= 1

\* C28: a step that changes the status of an order, to cancelled or to
\* anything else, leaves every stock line, every order line and every
\* order's total as they were: the units a cancelled order sold stay sold.
C28_StatusChangeLeavesStock ==
    [][(\E o \in DOMAIN orders :
           o \in DOMAIN orders' /\ orders'[o].status # orders[o].status)
       => /\ stocks' = stocks
          /\ order_items' = order_items
          /\ acct' = acct
          /\ \A o \in DOMAIN orders : orders'[o].total = orders[o].total]_vars

\* the only order is cancelled and the unit it sold is still off the stock
\* line, which nothing else has touched
C28_Witness ==
    /\ Len(orders) = 1 /\ orders[1].status = "cancelled"
    /\ stock_orders = <<>>
    /\ \E x \in DOMAIN stocks :
           /\ acct[x].sold >= 1
           /\ stocks[x].quantity = acct[x].initial - acct[x].sold
           /\ \E i \in DOMAIN order_items :
                  order_items[i].order_id = 1
                  /\ order_items[i].product_id = stocks[x].product_id

\* the order a step creates, if it creates one
C23_Created == Len(orders') = Len(orders) + 1

\* C23: every order is created as a new row with a code no earlier order
\* has, the earlier orders and their codes stay as they are, and so no two
\* orders ever share a code; a customer who checks out again after an
\* order gets another order next to the first.
C23_FreshOrderCode ==
    [][/\ Len(order_codes') = Len(orders')
       /\ \A o \in DOMAIN orders : o \in DOMAIN orders'
                                    /\ order_codes'[o] = order_codes[o]
       /\ C23_Created =>
              \A o \in DOMAIN orders :
                  order_codes'[Len(orders')] # order_codes[o]
       /\ \A o1, o2 \in DOMAIN order_codes' :
              order_codes'[o1] = order_codes'[o2] => o1 = o2]_vars

\* the customer has two orders, the second from the cart refilled after the
\* first, under different codes
C23_Witness ==
    /\ Len(orders) = 2
    /\ orders[1].user_id = orders[2].user_id
    /\ order_codes[1] # order_codes[2]
    /\ LinesOf(1) # <<>> /\ LinesOf(2) # <<>>

\* the lines the checkout loaded are no longer in the cart and the customer
\* already has an order made of exactly these lines
C24_AlreadyOrdered(sess) ==
    /\ \A i \in DOMAIN sess.snap.items :
           /\ sess.snap.items[i].quantity >= 1
           /\ \A c \in cart_items : c.id # sess.snap.items[i].id
    /\ \E o \in DOMAIN orders :
           /\ orders[o].user_id = sess.user
           /\ Len(LinesOf(o)) = Len(sess.snap.items)
           /\ \A i \in DOMAIN sess.snap.items :
                  /\ LinesOf(o)[i].product_id = sess.snap.items[i].product_id
                  /\ LinesOf(o)[i].quantity = sess.snap.items[i].quantity

\* C24: of two checkouts of one customer that loaded the same cart lines
\* only one makes an order: the commit of the other, coming after the
\* lines were ordered and deleted, adds no order and no order line and
\* sells no unit a second time.
C24_OneOrderPerCart ==
    [][\A sess \in InFlight :
          (sess.kind = "checkout" /\ C24_AlreadyOrdered(sess)
             /\ checkout_commit(sess))
          => /\ orders' = orders
             /\ order_items' = order_items
             /\ acct' = acct]_vars

\* C25: every cart line (of at least one unit) names the product of the
\* stock line it refers to.
C25_CartLineProductIsStockProduct ==
    \A c \in cart_items :
        c.quantity >= 1 =>
            /\ c.stock_id \in DOMAIN stocks
            /\ stocks[c.stock_id].product_id = c.product_id

\* the add_to_cart requests the step takes up
C26_Accepted ==
    {sess \in BagToSet(reqs') :
        sess.kind = "add_to_cart" /\ CopiesIn(sess, reqs') > CopiesIn(sess, reqs)}

\* C26: add_to_cart goes on exactly when the quantity of the call is at most
\* the stock line's quantity, whatever the matching cart line already
\* holds, and the commit of an accepted call on a line that is still there
\* sets the line to the quantity loaded plus the quantity of the call.
C26_CheckIgnoresCart ==
    [][/\ \A s \in DOMAIN stocks, q \in AddQtyInputs :
              (add_to_cart_response(s, q) = Continue) <=> (q <= stocks[s].quantity)
       /\ \A sess \in C26_Accepted :
              /\ sess.args.stock_id \in DOMAIN stocks
              /\ sess.args.quantity <= stocks[sess.args.stock_id].quantity
       /\ \A sess \in InFlight :
              (sess.kind = "add_to_cart"
                 /\ (\E c \in cart_items : c.id = sess.snap.id)
                 /\ add_to_cart_commit(sess))
              => \E c \in cart_items' :
                     /\ c.id = sess.snap.id
                     /\ c.quantity = sess.snap.quantity + sess.args.quantity]_vars

\* a cart line of three units, more than any one call can set, on a stock
\* line that holds one unit and never held more
C26_Witness ==
    \E c \in cart_items :
        /\ c.quantity = MaxCartQty
        /\ c.stock_id \in DOMAIN stocks
        /\ stocks[c.stock_id].quantity = 1
        /\ acct[c.stock_id].sold = 0

\* some line of the batch names the (product, condition) of the stock row
C27_Named(items, row) ==
    \E i \in DOMAIN items :
        items[i].product_id = row.product_id /\ items[i].condition = row.condition

\* no stock row has the line's (product, condition)
C27_NoStockLine(l) ==
    ~ \E x \in DOMAIN stocks :
          stocks[x].product_id = l.product_id /\ stocks[x].condition = l.condition

\* C27: the commit of a stock-out batch with a line for a (product,
\* condition) that has no stock line creates no stock line and leaves every
\* stock line no line of the batch names as it is; the batch is committed
\* as completed, answered as a success, and its audit line carries that
\* pair and the quantity asked.
C27_StockOutOfNothing ==
    [][\A sess \in InFlight :
          (StockOutBatch(sess) /\ save_stock_order_commit(sess))
          => \A i \in DOMAIN sess.snap.items :
                 C27_NoStockLine(sess.snap.items[i]) =>
                     /\ Len(stocks') = Len(stocks)
                     /\ \A x \in DOMAIN stocks :
                            ~ C27_Named(sess.snap.items, stocks[x])
                                => stocks'[x] = stocks[x]
                     /\ stock_orders' = Append(stock_orders, StockOrder("stock_out"))
                     /\ save_stock_order_response(sess) = Response(302, "", 0)
                     /\ Len(stock_order_items') =
                            Len(stock_order_items) + Len(sess.snap.items)
                     /\ LET a == stock_order_items'[Len(stock_order_items) + i]
                        IN  /\ a.product_id = sess.snap.items[i].product_id
                            /\ a.condition = sess.snap.items[i].condition
                            /\ a.quantity = sess.snap.items[i].quantity
                            /\ a.stock_order_id = Len(stock_orders')]_vars

\* a committed stock-out batch has an audit line of two units for a pair
\* without a stock line, and no stock line lost a unit
C27_Witness ==
    \E i \in DOMAIN stock_order_items :
        /\ stock_orders[stock_order_items[i].stock_order_id].order_type = "stock_out"
        /\ stock_order_items[i].quantity = MaxQty
        /\ C27_NoStockLine(stock_order_items[i])
        /\ \A x \in DOMAIN stocks : acct[x].removed = 0

\* the step is the end of a request of customer b that was in flight, or an
\* update or removal b sent
C29_StepOf(b) ==
    \/ \E sess \in InFlight :
           /\ sess.user = b
           /\ sess.kind \in {"add_to_cart", "checkout"}
           /\ reqs' = reqs (-) SetToBag({sess})
    \/ \E id \in CartIds, q \in QtyInputs : update_cart_item(b, id, q)
    \/ \E id \in CartIds : remove_from_cart(b, id)

\* C29: the cart lines of a customer change only in steps of that
\* customer's own requests; the commit of a checkout deletes the lines it
\* loaded, all of them the customer's own and, when the cart is still as
\* loaded, all the customer has, and no line of anyone else.
C29_CartsIsolated ==
    [][/\ \A b \in Users :
              {c \in cart_items' : c.user_id = b} # {c \in cart_items : c.user_id = b}
                  => C29_StepOf(b)
       /\ \A sess \in InFlight :
              (sess.kind = "checkout" /\ checkout_commit(sess))
              => /\ \A i \in DOMAIN sess.snap.items :
                        sess.snap.items[i].user_id = sess.user
                 /\ cart_items' =
                        {c \in cart_items :
                            \A i \in DOMAIN sess.snap.items :
                                c.id # sess.snap.items[i].id}
                 /\ ({c \in cart_items : c.user_id = sess.user}
                        = {sess.snap.items[i] : i \in DOMAIN sess.snap.items})
                     => \A c \in cart_items' : c.user_id # sess.user]_vars

\* one customer's line was in the cart before the other's; the other has
\* checked out and has no line left, the first line is still there
C29_Witness ==
    \E a, b \in Users :
        /\ a # b
        /\ next_cart_id = 3
        /\ \E o \in DOMAIN orders : orders[o].user_id = a /\ LinesOf(o) # <<>>
        /\ \A o \in DOMAIN orders : orders[o].user_id # b
        /\ \A c \in cart_items : c.user_id # a
        /\ \E c \in cart_items : c.user_id = b /\ c.id = 1 /\ c.quantity >= 1

\* the step commits a stock-in batch
C30_StockInCommit ==
    \E sess \in InFlight :
        /\ sess.kind = "save_stock_order"
        /\ sess.args.order_type = "stock_in"
        /\ save_stock_order_commit(sess)

\* C30: no step of a stock batch or a checkout changes the price, product
\* or condition of an existing stock line; a stock line is created only by
\* the commit of a stock-in batch and then with price 0, every other line
\* keeps the price it was seeded with; the cost per item of a stock-in line
\* is on its audit line, and a stock-out audit line has cost 0.
C30_PriceNeverChanges ==
    [][/\ \A x \in DOMAIN stocks :
              /\ x \in DOMAIN stocks'
              /\ stocks'[x].price = stocks[x].price
              /\ stocks'[x].product_id = stocks[x].product_id
              /\ stocks'[x].condition = stocks[x].condition
       /\ \A x \in DOMAIN stocks' \ DOMAIN stocks :
              stocks'[x].price = 0 /\ C30_StockInCommit
       /\ \A x \in DOMAIN stocks' :
              IF x <= NumProducts
              THEN stocks'[x].price = SeedPrice(stocks'[x].product_id)
              ELSE stocks'[x].price = 0
       /\ \A i \in DOMAIN stock_order_items' \ DOMAIN stock_order_items :
              stock_order_items'[i].cost_per_item =
                  IF C30_StockInCommit THEN 7 ELSE 0]_vars

\* a stock line created by a stock-in at cost 7 has price 0, and a unit of
\* it has been sold at that price
C30_Witness ==
    \E x \in DOMAIN stocks :
        /\ x > NumProducts
        /\ stocks[x].price = 0
        /\ acct[x].sold >= 1
        /\ \E i \in DOMAIN stock_order_items :
               /\ stock_order_items[i].product_id = stocks[x].product_id
               /\ stock_order_items[i].condition = stocks[x].condition
               /\ stock_order_items[i].cost_per_item = 7

====
